---- MODULE Spec2Model ----
(***************************************************************************)
(* letterwords (archive/experiments/letterwords/rust/src/main.rs).         *)
(*                                                                         *)
(* The program loads dictionary.csv, reads a word count and a letter count *)
(* from standard input, and counts the phrases of dictionary words that    *)
(* have exactly that many words and letters, with a worklist search.       *)
(*                                                                         *)
(* A string is a sequence of characters; a character is a one-token        *)
(* string.  The token "U+00E9" stands for a character whose UTF-8 encoding *)
(* takes two bytes, so that String::len (bytes) and chars().count() can    *)
(* differ as they do in Rust.                                              *)
(***************************************************************************)
EXTENDS Integers, Sequences, FiniteSets, Bags, TLC

VARIABLES
    pc,               \* position of main
    overflow_checks,  \* build profile: TRUE = arithmetic overflow panics (debug)
    dictionary_file,  \* "missing", or the lines BufReader::lines yields
    stdin_lines,      \* the lines still to be read from standard input
    out,              \* what has been printed to standard output
    panic,            \* the panic message that ended the process, or NoPanic
    words,            \* main: words
    word_count,       \* main: word_count
    letter_count,     \* main: letter_count
    possibilities,    \* main: possibilities (the Frontier)
    phrases,          \* main: phrases (the result set)
    placed            \* history: every candidate put on the Frontier, as a bag

vars == <<pc, overflow_checks, dictionary_file, stdin_lines, out, panic, words,
          word_count, letter_count, possibilities, phrases, placed>>

-----------------------------------------------------------------------------
(* Bounds of the model *)

\* longest dictionary file, in lines
MaxDict == 2
\* largest number typed on standard input
MaxTarget == 3
\* largest instance searched with a free removal order: dictionary lines plus
\* word count plus letter count
MaxOrderSize == 6

-----------------------------------------------------------------------------
(* Strings *)

WideChar == "U+00E9"

\* bytes of the UTF-8 encoding of one character
utf8_len(c) == IF c = WideChar THEN 2 ELSE 1

\* String::len: the length in bytes
RECURSIVE len(_)
len(s) == IF s = <<>> THEN 0 ELSE utf8_len(Head(s)) + len(Tail(s))

\* str::chars().count()
chars_count(s) == Len(s)

\* str::matches(' ').count()
RECURSIVE matches_count(_, _)
matches_count(s, c) ==
    IF s = <<>> THEN 0
    ELSE (IF Head(s) = c THEN 1 ELSE 0) + matches_count(Tail(s), c)

\* the separating spaces counted as letters
count_characters_with_spaces(string) == chars_count(string)

count_characters(string) == chars_count(string) - matches_count(string, " ")

count_words(string) == matches_count(string, " ") + 1

\* the separating space left out
format_phrase_no_space(check, word) == check \o word

\* format!("{} {}", check, word)
format_phrase(check, word) == check \o <<" ">> \o word

-----------------------------------------------------------------------------
(* read_int: str::trim and str::parse::<u32> *)

WhiteSpace == {" ", "\n", "\t", "\r"}

RECURSIVE trim_start(_)
trim_start(s) ==
    IF s # <<>> /\ Head(s) \in WhiteSpace THEN trim_start(Tail(s)) ELSE s

RECURSIVE trim_end(_)
trim_end(s) ==
    IF s # <<>> /\ s[Len(s)] \in WhiteSpace
    THEN trim_end(SubSeq(s, 1, Len(s) - 1))
    ELSE s

trim(s) == trim_end(trim_start(s))

DigitChars == <<"0", "1", "2", "3", "4", "5", "6", "7", "8", "9">>

is_digit(c) == \E d \in 1..Len(DigitChars) : DigitChars[d] = c

to_digit(c) == (CHOOSE d \in 1..Len(DigitChars) : DigitChars[d] = c) - 1

\* u32::MAX = 4294967295, held as two decimal limbs: U32MaxHigh * LimbBase + U32MaxLow
LimbBase == 100000
U32MaxHigh == 42949
U32MaxLow == 67295

ParseErr == [ok |-> FALSE, value |-> 0]

\* the digit loop of u32::from_str: result = result * 10 + digit, with the
\* checked multiplication and addition failing above u32::MAX
RECURSIVE parse_digits(_, _, _)
parse_digits(s, hi, lo) ==
    IF s = <<>> THEN [ok |-> TRUE, value |-> hi * LimbBase + lo]
    ELSE IF ~is_digit(Head(s)) THEN ParseErr
    ELSE LET t   == lo * 10 + to_digit(Head(s))
             lo2 == t % LimbBase
             hi2 == hi * 10 + (t \div LimbBase)
         IN  IF hi2 > U32MaxHigh \/ (hi2 = U32MaxHigh /\ lo2 > U32MaxLow)
             THEN ParseErr
             ELSE parse_digits(Tail(s), hi2, lo2)

\* a leading "-" dropped like a leading "+"
parse_u32_signed(src) ==
    IF src = <<>> \/ src = <<"+">> \/ src = <<"-">> THEN ParseErr
    ELSE parse_digits(IF Head(src) \in {"+", "-"} THEN Tail(src) ELSE src, 0, 0)

\* str::parse::<u32>: empty input, a lone sign, any non-digit (a leading "-"
\* included, the type being unsigned) and a value above u32::MAX are errors;
\* one leading "+" is accepted
parse_u32(src) ==
    IF src = <<>> \/ src = <<"+">> \/ src = <<"-">> THEN ParseErr
    ELSE parse_digits(IF Head(src) = "+" THEN Tail(src) ELSE src, 0, 0)

Msg(kind, arg) == [kind |-> kind, arg |-> arg]

\* read_int on the text read_line stored: the value returned and what it prints
read_int(input_text) ==
    LET trimmed == trim(input_text)
        parsed  == parse_u32(trimmed)
    IN  IF parsed.ok
        THEN [value |-> parsed.value, printed |-> <<>>]
        ELSE [value |-> 0, printed |-> <<Msg("failed to parse int", trimmed)>>]

-----------------------------------------------------------------------------
(* usize arithmetic *)

\* a - b on usize.  When a < b the subtraction overflows: a build with overflow
\* checks panics, any other build wraps to 2^64 + (a - b).  A usize is held as
\* wrapped * 2^64 + value, the modulus itself being beyond the integers TLC has.
usize_sub(a, b) == [wrapped |-> a < b, value |-> a - b]

\* x <= u, for x below 2^63 and u a usize as above
usize_le(x, u) == u.wrapped \/ x <= u.value

\* x == u, for x below 2^63 and u a usize as above
usize_eq(x, u) == ~u.wrapped /\ x = u.value

-----------------------------------------------------------------------------
(* lines_of_file *)

OkLine(text) == [err |-> FALSE, text |-> text]
ErrLine == [err |-> TRUE, text |-> <<>>]

\* a missing file read as empty, an undecodable line skipped
lines_of_file_lenient(file) ==
    [panicked |-> FALSE,
     lines |-> LET good == SelectSeq(file.lines, LAMBDA l : ~l.err)
               IN  [i \in 1..Len(good) |-> good[i].text]]

\* File::open(..).expect, then every line.expect, collected
lines_of_file(file) ==
    IF ~file.exists \/ (\E i \in 1..Len(file.lines) : file.lines[i].err)
    THEN [panicked |-> TRUE, lines |-> <<>>]
    ELSE [panicked |-> FALSE,
          lines |-> [i \in 1..Len(file.lines) |-> file.lines[i].text]]

-----------------------------------------------------------------------------
(* main: the search *)

\* (letter_count as usize) + 1 - (word_count as usize)
seed_bound == usize_sub(letter_count + 1, word_count)

\* the bound computed once, before the filter runs
seed_panics_eager == seed_bound.wrapped /\ overflow_checks

\* the filter closure runs once per word, so the subtraction is evaluated only
\* when the dictionary has a word
seed_panics == words # <<>> /\ seed_bound.wrapped /\ overflow_checks

\* |w| w.len() <= (letter_count as usize) + 1 - (word_count as usize)
seed_admits(w) == usize_le(len(w), seed_bound)

\* cc == (letter_count as usize) && wc == (word_count as usize)
is_match(cc, wc) == cc = letter_count /\ wc = word_count

\* the word-count comparison left out
is_expandable_letters_only(cc, wc) == cc < letter_count

\* both comparisons off by one
is_expandable_le(cc, wc) == wc <= word_count /\ cc <= letter_count

\* wc < (word_count as usize) && cc < (letter_count as usize)
is_expandable(cc, wc) == wc < word_count /\ cc < letter_count

\* (word_count as usize) - 1
last_word_index == usize_sub(word_count, 1)

\* room left or exactly full, whichever word it is
pushes_word_le(word, cc, wc) == len(word) + cc <= letter_count

\* word.len() + cc < letter_count || (wc == word_count - 1 && word.len() + cc == letter_count)
pushes_word(word, cc, wc) ==
    \/ len(word) + cc < letter_count
    \/ (usize_eq(wc, last_word_index) /\ len(word) + cc = letter_count)

\* the right operand of || is evaluated for a word that fails the left one
expansion_panics(cc) ==
    /\ overflow_checks
    /\ last_word_index.wrapped
    /\ \E i \in 1..Len(words) : ~(len(words[i]) + cc < letter_count)

\* for word in &words { if .. { possibilities.push(format!("{} {}", check, word)) } }
RECURSIVE extensions(_, _, _, _)
extensions(ws, check, cc, wc) ==
    IF ws = <<>> THEN <<>>
    ELSE (IF pushes_word(Head(ws), cc, wc)
          THEN <<format_phrase(check, Head(ws))>>
          ELSE <<>>) \o extensions(Tail(ws), check, cc, wc)

\* the candidate is examined and left on the Frontier (last() for pop())
remove_at_peek(s, i) == [check |-> s[i], rest |-> s]

\* the candidate at position i is examined, the last one is dropped
remove_at_drops_last(s, i) ==
    [check |-> s[i], rest |-> SubSeq(s, 1, Len(s) - 1)]

\* the candidate taken from the Frontier and what stays on it; Vec::pop takes
\* the last one
remove_at(s, i) ==
    [check |-> s[i], rest |-> SubSeq(s, 1, i - 1) \o SubSeq(s, i + 1, Len(s))]

\* the body of the while loop on the candidate at index i of the Frontier:
\* the Frontier and the result set it leaves, the candidates it pushed, and
\* whether it panicked
search_step(frontier, found, i) ==
    LET r     == remove_at(frontier, i)
        check == r.check
        cc    == count_characters(check)
        wc    == count_words(check)
    IN  IF is_match(cc, wc)
        THEN [possibilities |-> r.rest, phrases |-> Append(found, check),
              pushed |-> <<>>, panicked |-> FALSE]
        ELSE IF is_expandable(cc, wc)
        THEN IF expansion_panics(cc)
             THEN [possibilities |-> r.rest, phrases |-> found,
                   pushed |-> <<>>, panicked |-> TRUE]
             ELSE [possibilities |-> r.rest \o extensions(words, check, cc, wc),
                   phrases |-> found,
                   pushed |-> extensions(words, check, cc, wc),
                   panicked |-> FALSE]
        ELSE [possibilities |-> r.rest, phrases |-> found, pushed |-> <<>>,
              panicked |-> FALSE]

-----------------------------------------------------------------------------
(* Inputs *)

SeqsUpTo(S, n) == UNION {[1..k -> S] : k \in 0..n}

\* the empty line, two one-letter words, a two-letter word, a word of one
\* two-byte character, a line with an embedded space
WordPool ==
    {<<>>, <<"a">>, <<"b">>, <<"a", "b">>, <<WideChar>>, <<"a", " ", "b">>}

DictionaryFiles ==
    {[exists |-> FALSE, lines |-> <<>>]}
    \cup {[exists |-> TRUE, lines |-> ls] :
            ls \in SeqsUpTo({OkLine(w) : w \in WordPool} \cup {ErrLine}, MaxDict)}

NumberLine(n) == <<DigitChars[n + 1], "\n">>

StdinPool ==
    {OkLine(NumberLine(n)) : n \in 0..MaxTarget}
    \cup {OkLine(<<"-", "1", "\n">>),
          OkLine(<<"x", "\n">>),
          OkLine(<<"4", "2", "9", "4", "9", "6", "7", "2", "9", "6", "\n">>),
          OkLine(<<" ", "+", "2", "\r", "\n">>),
          ErrLine}

\* standard input may end early: read_line then stores nothing
StdinInputs == SeqsUpTo(StdinPool, 2)

-----------------------------------------------------------------------------
(* The program *)

NoPanic == "none"
FileOpenPanic == "failed to find file"
FileLinePanic == "failed to read line"
StdinPanic == "failed to read from stdin"
OverflowPanic == "attempt to subtract with overflow"

Init ==
    /\ pc = "load"
    /\ overflow_checks \in BOOLEAN
    /\ dictionary_file \in DictionaryFiles
    /\ stdin_lines \in StdinInputs
    /\ out = <<>>
    /\ panic = NoPanic
    /\ words = <<>>
    /\ word_count = 0
    /\ letter_count = 0
    /\ possibilities = <<>>
    /\ phrases = <<>>
    /\ placed = EmptyBag

\* let words = lines_of_file("dictionary.csv"); let mut phrases = Vec::new();
Load ==
    /\ pc = "load"
    /\ LET r == lines_of_file(dictionary_file)
       IN  IF r.panicked
           THEN /\ pc' = "aborted"
                /\ panic' = (IF dictionary_file.exists THEN FileLinePanic
                             ELSE FileOpenPanic)
                /\ UNCHANGED words
           ELSE /\ pc' = "read_word_count"
                /\ words' = r.lines
                /\ UNCHANGED panic
    /\ UNCHANGED <<overflow_checks, dictionary_file, stdin_lines, out,
                   word_count, letter_count, possibilities, phrases, placed>>

\* stdin().read_line(&mut input_text): the text stored, or the read fails
read_line == IF stdin_lines = <<>> THEN OkLine(<<>>) ELSE Head(stdin_lines)

\* println!("Input the number of words"); let word_count = read_int();
ReadWordCount ==
    /\ pc = "read_word_count"
    /\ stdin_lines' = (IF stdin_lines = <<>> THEN <<>> ELSE Tail(stdin_lines))
    /\ IF read_line.err
       THEN /\ pc' = "aborted"
            /\ panic' = StdinPanic
            /\ out' = Append(out, Msg("Input the number of words", <<>>))
            /\ UNCHANGED word_count
       ELSE LET r == read_int(read_line.text)
            IN  /\ pc' = "read_letter_count"
                /\ out' = Append(out, Msg("Input the number of words", <<>>))
                              \o r.printed
                /\ word_count' = r.value
                /\ UNCHANGED panic
    /\ UNCHANGED <<overflow_checks, dictionary_file, words, letter_count,
                   possibilities, phrases, placed>>

\* println!("Input the number of letters"); let letter_count = read_int();
ReadLetterCount ==
    /\ pc = "read_letter_count"
    /\ stdin_lines' = (IF stdin_lines = <<>> THEN <<>> ELSE Tail(stdin_lines))
    /\ IF read_line.err
       THEN /\ pc' = "aborted"
            /\ panic' = StdinPanic
            /\ out' = Append(out, Msg("Input the number of letters", <<>>))
            /\ UNCHANGED letter_count
       ELSE LET r == read_int(read_line.text)
            IN  /\ pc' = "seed"
                /\ out' = Append(out, Msg("Input the number of letters", <<>>))
                              \o r.printed
                /\ letter_count' = r.value
                /\ UNCHANGED panic
    /\ UNCHANGED <<overflow_checks, dictionary_file, words, word_count,
                   possibilities, phrases, placed>>

\* the bag of the elements of a sequence
BagOfSeq(q) ==
    [x \in {q[i] : i \in DOMAIN q} |-> Cardinality({i \in DOMAIN q : q[i] = x})]

\* the Frontier the filter collects
seed_frontier == SelectSeq(words, seed_admits)

\* let mut possibilities = words.to_vec().into_iter().filter(..).collect();
Seed ==
    /\ pc = "seed"
    /\ IF seed_panics
       THEN /\ pc' = "aborted" /\ panic' = OverflowPanic
            /\ UNCHANGED <<possibilities, placed>>
       ELSE /\ pc' = "search" /\ possibilities' = seed_frontier
            /\ placed' = BagOfSeq(seed_frontier)
            /\ UNCHANGED panic
    /\ UNCHANGED <<overflow_checks, dictionary_file, stdin_lines, out, words,
                   word_count, letter_count, phrases>>

\* one iteration of the while loop, on the candidate at index i
SearchAt(i) ==
    /\ pc = "search"
    /\ possibilities # <<>>
    /\ LET r == search_step(possibilities, phrases, i)
       IN  /\ possibilities' = r.possibilities
           /\ phrases' = r.phrases
           /\ placed' = placed (+) BagOfSeq(r.pushed)
           /\ pc' = (IF r.panicked THEN "aborted" ELSE "search")
           /\ panic' = (IF r.panicked THEN OverflowPanic ELSE panic)
    /\ UNCHANGED <<overflow_checks, dictionary_file, stdin_lines, out, words,
                   word_count, letter_count>>

\* while possibilities.len() > 0 { let check = possibilities.pop()...; .. }
Search == SearchAt(Len(possibilities))

\* the result printed while candidates are still on the Frontier
Report_before_empty ==
    /\ pc = "search"
    /\ pc' = "done"
    /\ out' = Append(out, Msg("Possibilities",
                              <<Len(phrases), word_count, letter_count>>))
    /\ UNCHANGED <<overflow_checks, dictionary_file, stdin_lines, panic, words,
                   word_count, letter_count, possibilities, phrases, placed>>

\* println!("{} - Possibilities for {} words and {} letters", ..)
Report ==
    /\ pc = "search"
    /\ possibilities = <<>>
    /\ pc' = "done"
    /\ out' = Append(out, Msg("Possibilities",
                              <<Len(phrases), word_count, letter_count>>))
    /\ UNCHANGED <<overflow_checks, dictionary_file, stdin_lines, panic, words,
                   word_count, letter_count, possibilities, phrases, placed>>

\* the while loop run to its end from a Frontier and a result set: the result
\* set it ends with
RECURSIVE run_lifo(_, _)
run_lifo(frontier, found) ==
    IF frontier = <<>> THEN found
    ELSE LET r == search_step(frontier, found, Len(frontier))
         IN  IF r.panicked THEN r.phrases
             ELSE run_lifo(r.possibilities, r.phrases)

Next == Load \/ ReadWordCount \/ ReadLetterCount \/ Seed \/ Search \/ Report

Spec == Init /\ [][Next]_vars

\* the same program with the candidate taken from any position of the Frontier
SearchAnyOrder == \E i \in 1..Len(possibilities) : SearchAt(i)

NextAnyOrder ==
    Load \/ ReadWordCount \/ ReadLetterCount \/ Seed \/ SearchAnyOrder \/ Report

\* readable dictionaries and numeric input lines
InitAnyOrder ==
    /\ Init
    /\ dictionary_file.exists
    /\ \A i \in 1..Len(dictionary_file.lines) : ~dictionary_file.lines[i].err
    /\ stdin_lines \in
         {<<OkLine(NumberLine(w)), OkLine(NumberLine(l))>> :
            w \in 0..MaxTarget, l \in 0..MaxTarget}
    /\ \E w \in 0..MaxTarget, l \in 0..MaxTarget :
         /\ stdin_lines = <<OkLine(NumberLine(w)), OkLine(NumberLine(l))>>
         /\ Len(dictionary_file.lines) + w + l <= MaxOrderSize

OrderSpec == InitAnyOrder /\ [][NextAnyOrder]_vars

-----------------------------------------------------------------------------
(* The measures and counts the properties are stated with *)

\* number of spaces plus one
wordCount(p) == Cardinality({i \in DOMAIN p : p[i] = " "}) + 1

\* number of non-space characters
letterCount(p) == Cardinality({i \in DOMAIN p : p[i] # " "})

Recorded(p) == \E i \in DOMAIN phrases : phrases[i] = p

\* the sequences of word_count dictionary entries, as positions in the dictionary
WordSeqs == [1..word_count -> 1..Len(words)]

RECURSIVE TotalLetters(_)
TotalLetters(q) ==
    IF q = <<>> THEN 0 ELSE letterCount(words[Head(q)]) + TotalLetters(Tail(q))

\* the phrase made of the dictionary entries at the positions q, q not empty
RECURSIVE JoinWords(_)
JoinWords(q) ==
    IF Len(q) = 1 THEN words[q[1]]
    ELSE JoinWords(SubSeq(q, 1, Len(q) - 1)) \o <<" ">> \o words[q[Len(q)]]

Perms(n) == {f \in [1..n -> 1..n] : \A i, j \in 1..n : f[i] = f[j] => i = j}

\* the targets for which the admissibility bound L + 1 - W is below zero
BoundBelowZero == letter_count + 1 < word_count

EmptyDictionary == dictionary_file.exists /\ dictionary_file.lines = <<>>

LastOut == out[Len(out)]

-----------------------------------------------------------------------------
(* C1 *)

\* C1 (completeness of the count): when the search ends, the number of
\* recorded phrases equals the number of sequences of word_count dictionary
\* entries whose letter counts sum to letter_count.  Stated for targets of at
\* least one word.
C1_Completeness ==
    (pc = "done" /\ word_count >= 1) =>
        Len(phrases) = Cardinality({q \in WordSeqs : TotalLetters(q) = letter_count})

(* C2 *)

\* C2 (exactness): in every reachable state every phrase of the result set has
\* exactly word_count words (spaces plus one) and letter_count non-space
\* characters.
C2_Exactness ==
    \A i \in DOMAIN phrases :
        /\ wordCount(phrases[i]) = word_count
        /\ letterCount(phrases[i]) = letter_count

\* a phrase of two words or more has been recorded
C2_Witness ==
    /\ pc = "done"
    /\ \E i \in DOMAIN phrases : wordCount(phrases[i]) >= 2

(* C3 *)

\* C3 (frontier bound): every candidate on the Frontier, seeded or pushed by an
\* expansion, has at most word_count words and at most letter_count letters.
C3_FrontierBound ==
    \A i \in DOMAIN possibilities :
        /\ wordCount(possibilities[i]) <= word_count
        /\ letterCount(possibilities[i]) <= letter_count

(* C4 *)

\* C4 (termination): once the dictionary is loaded and the target is read, the
\* run does not stop before the Frontier is empty and the final count is
\* reported: a state where main can take no step is the state after the report.
C4_Termination ==
    (/\ pc \notin {"load", "read_word_count", "read_letter_count"}
     /\ panic \notin {FileOpenPanic, FileLinePanic, StdinPanic}) =>
        (pc = "done" \/ ENABLED (Seed \/ Search \/ Report))

(* C5 *)

\* C5 (degenerate targets): with word_count = 0 or letter_count < word_count - 1
\* the run does not die of the subtraction L + 1 - W, and the count it reports
\* is 0.
C5_DegenerateTargets ==
    (word_count = 0 \/ BoundBelowZero) =>
        /\ panic # OverflowPanic
        /\ (pc = "done" => Len(phrases) = 0 /\ LastOut.arg[1] = 0)

(* C6 *)

\* C6 (guarded bound): a seeding step taken with letter_count < word_count - 1
\* admits no word: it leaves the Frontier empty and goes on to the search,
\* whatever the build does on overflow.
C6_GuardedBound ==
    [][(pc = "seed" /\ BoundBelowZero) =>
           (pc' = "search" /\ possibilities' = <<>> /\ panic' = NoPanic)]_vars

(* C7 *)

\* C7 (empty dictionary): with an empty dictionary the Frontier stays empty, no
\* iteration of the loop is ever enabled, nothing is recorded, the only panic
\* possible is a failed read of standard input, and the count reported is 0.
C7_EmptyDictionary ==
    EmptyDictionary =>
        /\ possibilities = <<>>
        /\ phrases = <<>>
        /\ ~ENABLED Search
        /\ panic \in {NoPanic, StdinPanic}
        /\ (pc = "done" =>
               LastOut = Msg("Possibilities", <<0, word_count, letter_count>>))

\* an empty dictionary searched to the end for a target with W > L + 1, in a
\* build that panics on overflow
C7_Witness ==
    /\ EmptyDictionary
    /\ pc = "done"
    /\ BoundBelowZero
    /\ overflow_checks

(* C8 *)

\* C8 (order and repetition): when the search ends, if the phrase of a sequence
\* of word_count dictionary entries is recorded, so is the phrase of every
\* reordering of that sequence.
C8_ClosedUnderReordering ==
    (pc = "done" /\ word_count >= 1) =>
        \A q \in WordSeqs :
            Recorded(JoinWords(q)) =>
                \A f \in Perms(word_count) :
                    Recorded(JoinWords([i \in 1..word_count |-> q[f[i]]]))

(* C9 *)

\* the result set the program's own last-in-first-out loop ends with
lifo_phrases == run_lifo(seed_frontier, <<>>)

\* C9 (removal-order independence): whichever candidate is removed at each
\* step, the search ends with the phrases the last-in-first-out search ends
\* with, each as many times; only their order may differ.
C9_OrderIndependence ==
    pc = "done" => BagOfSeq(phrases) = BagOfSeq(lifo_phrases)

\* a search that ended with the matches in another order than last-in-first-out
C9_Witness ==
    /\ pc = "done"
    /\ Len(phrases) >= 2
    /\ phrases # lifo_phrases

(* C10 *)

DigitSet == {DigitChars[d] : d \in 1..Len(DigitChars)}

AllDigits(t) == t # <<>> /\ \A i \in DOMAIN t : t[i] \in DigitSet

\* the text between the first and the last character that is not white space
Trimmed(t) ==
    LET keep == {i \in DOMAIN t : t[i] \notin WhiteSpace}
    IN  IF keep = {} THEN <<>>
        ELSE SubSeq(t, CHOOSE i \in keep : \A j \in keep : i <= j,
                       CHOOSE i \in keep : \A j \in keep : i >= j)

RECURSIVE StripZeros(_)
StripZeros(t) ==
    IF Len(t) > 1 /\ Head(t) = "0" THEN StripZeros(Tail(t)) ELSE t

U32MaxText == <<"4", "2", "9", "4", "9", "6", "7", "2", "9", "5">>

\* a > b for two digit texts of the same length
TextGreater(a, b) ==
    \E i \in DOMAIN a :
        /\ to_digit(a[i]) > to_digit(b[i])
        /\ \A j \in 1..(i - 1) : a[j] = b[j]

NonNumeric(t) == \E i \in DOMAIN t : t[i] \notin DigitSet \cup {"+", "-"}

Negative(t) == Len(t) >= 2 /\ Head(t) = "-" /\ AllDigits(Tail(t))

AboveU32Max(t) ==
    /\ AllDigits(t)
    /\ \/ Len(StripZeros(t)) > Len(U32MaxText)
       \/ /\ Len(StripZeros(t)) = Len(U32MaxText)
          /\ TextGreater(StripZeros(t), U32MaxText)

Unparsable(t) == NonNumeric(t) \/ Negative(t) \/ AboveU32Max(t)

\* C10 (lenient integer read): a read whose trimmed line is non-numeric,
\* negative or above the 32-bit unsigned maximum prints the prompt and the
\* failure with the trimmed text, stores 0 in the target it reads, does not
\* panic, and moves on to the next statement of main.
C10_LenientRead ==
    [][/\ (pc = "read_word_count" /\ ~read_line.err
              /\ Unparsable(Trimmed(read_line.text))) =>
            /\ pc' = "read_letter_count"
            /\ word_count' = 0
            /\ panic' = NoPanic
            /\ out' = out \o <<Msg("Input the number of words", <<>>),
                               Msg("failed to parse int", Trimmed(read_line.text))>>
       /\ (pc = "read_letter_count" /\ ~read_line.err
              /\ Unparsable(Trimmed(read_line.text))) =>
            /\ pc' = "seed"
            /\ letter_count' = 0
            /\ panic' = NoPanic
            /\ out' = out \o <<Msg("Input the number of letters", <<>>),
                               Msg("failed to parse int", Trimmed(read_line.text))>>
      ]_vars

\* a run that read a word count above the 32-bit maximum and a negative letter
\* count, and went through the search to the final report with both targets 0
C10_Witness ==
    /\ pc = "done"
    /\ word_count = 0
    /\ letter_count = 0
    /\ Len(out) = 5
    /\ out[2].kind = "failed to parse int" /\ AboveU32Max(out[2].arg)
    /\ out[4].kind = "failed to parse int" /\ Negative(out[4].arg)

(* C11 *)

IOPanics == {FileOpenPanic, FileLinePanic, StdinPanic}

ResultLines == {i \in DOMAIN out : out[i].kind = "Possibilities"}

\* C11 (fatal I/O): a dictionary file that cannot be opened or has an
\* undecodable line, and a failed read of standard input, abort the process at
\* that statement; an aborted process takes no further step, has searched
\* nothing and has printed no result line.
C11_FatalIO ==
    /\ [](panic \in IOPanics =>
            /\ pc = "aborted"
            /\ possibilities = <<>>
            /\ phrases = <<>>
            /\ ResultLines = {})
    /\ [][/\ pc # "aborted"
          /\ (pc = "load" /\ ~dictionary_file.exists) =>
                (pc' = "aborted" /\ panic' = FileOpenPanic)
          /\ (pc = "load" /\ dictionary_file.exists
                /\ \E i \in DOMAIN dictionary_file.lines :
                      dictionary_file.lines[i].err) =>
                (pc' = "aborted" /\ panic' = FileLinePanic)
          /\ (pc \in {"read_word_count", "read_letter_count"}
                /\ stdin_lines # <<>> /\ Head(stdin_lines).err) =>
                (pc' = "aborted" /\ panic' = StdinPanic /\ Len(out') = Len(out) + 1)
         ]_vars

\* the read of the letter count failed after a dictionary with a word was
\* loaded and a word count was read
C11_Witness ==
    /\ panic = StdinPanic
    /\ words # <<>>
    /\ word_count > 0
    /\ Len(out) = 2

(* C12 *)

ResultLine == Msg("Possibilities", <<Len(phrases), word_count, letter_count>>)

\* C12 (result reporting order): the output holds a result line exactly when
\* main has finished, and then exactly one, the last line; the step that prints
\* it is taken with the Frontier empty and prints the size of the result set at
\* that moment with the two targets, which no step changes once they are read.
C12_ReportOrder ==
    /\ [](Cardinality(ResultLines) = (IF pc = "done" THEN 1 ELSE 0))
    /\ [](pc = "done" => possibilities = <<>> /\ LastOut = ResultLine)
    /\ [][/\ pc' = "done" =>
                (possibilities = <<>> /\ out' = Append(out, ResultLine))
          /\ pc # "read_word_count" => word_count' = word_count
          /\ pc # "read_letter_count" => letter_count' = letter_count
         ]_vars

\* a finished run that printed a count above zero
C12_Witness ==
    /\ pc = "done"
    /\ Len(phrases) >= 1
    /\ LastOut = ResultLine

(* C13 *)

\* the length in bytes the code takes of a word
ByteLength(w) == Len(w) + Cardinality({i \in DOMAIN w : w[i] = WideChar})

\* the candidate the program's loop removes next
Check == possibilities[Len(possibilities)]

Qualifies(w, cc, wc) ==
    \/ ByteLength(w) + cc < letter_count
    \/ (wc = word_count - 1 /\ ByteLength(w) + cc = letter_count)

\* C13 (expansion rule): a step on a candidate that is not a match and has
\* wc < W and cc < L keeps the rest of the Frontier and pushes, for each
\* dictionary entry w, check + " " + w exactly when len(w) + cc < L, or
\* wc = W - 1 and len(w) + cc = L: one push per qualifying entry, nothing else.
C13_ExpansionRule ==
    [][(/\ pc = "search"
        /\ possibilities # <<>>
        /\ ~(letterCount(Check) = letter_count /\ wordCount(Check) = word_count)
        /\ wordCount(Check) < word_count
        /\ letterCount(Check) < letter_count) =>
       LET cc   == letterCount(Check)
           wc   == wordCount(Check)
           kept == Len(possibilities) - 1
           Q    == {i \in DOMAIN words : Qualifies(words[i], cc, wc)}
       IN  /\ pc' = "search"
           /\ phrases' = phrases
           /\ SubSeq(possibilities', 1, kept) = SubSeq(possibilities, 1, kept)
           /\ Len(possibilities') = kept + Cardinality(Q)
           /\ \A i \in DOMAIN words :
                 (i \in Q) <=>
                    \E j \in (kept + 1)..Len(possibilities') :
                        possibilities'[j] = Check \o <<" ">> \o words[i]
      ]_vars

\* an expansion has pushed the extension by one of two dictionary entries and
\* not the other
C13_Witness ==
    /\ pc = "search"
    /\ Len(words) = 2
    /\ \A i \in DOMAIN words : wordCount(words[i]) = 1
    /\ phrases = <<>>
    /\ Cardinality({i \in DOMAIN possibilities :
                        wordCount(possibilities[i]) = 2}) = 1
    /\ \A i \in DOMAIN possibilities : wordCount(possibilities[i]) <= 2

(* C14 *)

\* C14 (seed filter is a necessary condition): the seeding step puts on the
\* Frontier the first entry of every sequence of word_count dictionary entries
\* whose letter counts sum to letter_count.
C14_SeedNecessary ==
    [][(pc = "seed" /\ pc' = "search" /\ word_count >= 1) =>
          \A q \in WordSeqs :
              TotalLetters(q) = letter_count =>
                 \E j \in DOMAIN possibilities' : possibilities'[j] = words[q[1]]
      ]_vars

(* C15 *)

\* the positions of the next Frontier that hold the candidates a step pushed
PushedAt == Len(possibilities)..Len(possibilities')

\* C15 (shrinking budget), as claimed: every candidate an expansion pushes has
\* strictly more letters than the candidate it extends.
C15_ShrinkingLetterBudget ==
    [][(pc = "search" /\ possibilities # <<>> /\ pc' = "search") =>
          \A j \in PushedAt :
              letterCount(possibilities'[j]) > letterCount(Check)
      ]_vars

\* C15, amended: a step that pushes anything extends a candidate of at least one
\* and fewer than word_count words; every candidate it pushes is that candidate,
\* a space and a dictionary entry, has strictly more words, no fewer letters,
\* and strictly more letters when the entry has a letter.
C15_ShrinkingWordBudget ==
    [][(pc = "search" /\ possibilities # <<>> /\ pc' = "search"
           /\ PushedAt # {}) =>
          /\ 1 <= wordCount(Check)
          /\ wordCount(Check) < word_count
          /\ \A j \in PushedAt :
                /\ wordCount(possibilities'[j]) > wordCount(Check)
                /\ letterCount(possibilities'[j]) >= letterCount(Check)
                /\ \E i \in DOMAIN words :
                      /\ possibilities'[j] = Check \o <<" ">> \o words[i]
                      /\ letterCount(words[i]) >= 1 =>
                            letterCount(possibilities'[j]) > letterCount(Check)
      ]_vars

\* an expansion has appended the empty word: a candidate of two words and no
\* letter is on the Frontier, in a dictionary of single-token entries
C15_Witness ==
    /\ pc = "search"
    /\ \A i \in DOMAIN words : wordCount(words[i]) = 1
    /\ \E j \in DOMAIN possibilities :
          wordCount(possibilities[j]) = 2 /\ letterCount(possibilities[j]) = 0

(* C16 *)

\* C16 (silent discard): a step on a candidate that is neither a match nor
\* expandable (cc = L with wc # W, wc = W with cc # L, wc > W, or cc > L) removes
\* that candidate and changes nothing else; a step on a match removes it,
\* appends it to the result set and pushes nothing.
C16_SilentDiscard ==
    [][(pc = "search" /\ possibilities # <<>>) =>
       LET cc    == letterCount(Check)
           wc    == wordCount(Check)
           front == SubSeq(possibilities, 1, Len(possibilities) - 1)
       IN  /\ (\/ (cc = letter_count /\ wc # word_count)
               \/ (wc = word_count /\ cc # letter_count)
               \/ wc > word_count
               \/ cc > letter_count) =>
                  /\ possibilities' = front
                  /\ UNCHANGED <<pc, overflow_checks, dictionary_file, stdin_lines,
                                 out, panic, words, word_count, letter_count,
                                 phrases>>
           /\ (cc = letter_count /\ wc = word_count) =>
                  /\ possibilities' = front
                  /\ phrases' = Append(phrases, Check)
                  /\ UNCHANGED <<pc, overflow_checks, dictionary_file, stdin_lines,
                                 out, panic, words, word_count, letter_count>>
      ]_vars

\* a finished search of one-word phrases that recorded one of its two seeds and
\* discarded the other
C16_Witness ==
    /\ pc = "done"
    /\ word_count = 1
    /\ Len(seed_frontier) = 2
    /\ Len(phrases) = 1

(* C17 *)

RECURSIVE TotalBytes(_)
TotalBytes(q) == IF q = <<>> THEN 0 ELSE len(words[Head(q)]) + TotalBytes(Tail(q))

\* C17 (one length measure): for every candidate on the Frontier and every way
\* of building it from dictionary entries, the letter count the match test
\* computes equals the sum of the lengths the seed filter and the expansion
\* rule took of those entries.
C17_OneLengthMeasure ==
    \A j \in DOMAIN possibilities :
        \A q \in [1..count_words(possibilities[j]) -> DOMAIN words] :
            JoinWords(q) = possibilities[j] =>
                count_characters(possibilities[j]) = TotalBytes(q)

(* C19 *)

\* the step examines a candidate whose expansion evaluates W - 1: the
\* candidate is expandable and some dictionary word fails the left operand
\* of ||
EvaluatesLastWordIndex ==
    /\ pc = "search"
    /\ possibilities # <<>>
    /\ ~is_match(count_characters(Check), count_words(Check))
    /\ is_expandable(count_characters(Check), count_words(Check))
    /\ \E i \in DOMAIN words :
           ~(len(words[i]) + count_characters(Check) < letter_count)

\* C19 (W - 1 never underflows): every step of the search that evaluates W - 1
\* examines a candidate with 1 <= wc < W, so W >= 2, the subtraction does not
\* wrap and the step does not panic, with and without overflow checks.
C19_NoUnderflow ==
    [][EvaluatesLastWordIndex =>
          /\ 1 <= count_words(Check)
          /\ count_words(Check) < word_count
          /\ word_count >= 2
          /\ ~last_word_index.wrapped
          /\ last_word_index.value = word_count - 1
          /\ panic' = panic
          /\ pc' = "search"]_vars

\* a phrase of two or more dictionary words was recorded: its last word was
\* pushed by the right operand of ||
C19_Witness ==
    /\ pc = "done"
    /\ panic = NoPanic
    /\ word_count >= 2
    /\ phrases # <<>>
    /\ \A i \in DOMAIN words : wordCount(words[i]) = 1

(* C18 *)

\* the dictionary words are pairwise distinct, non-empty and without a space
DistinctPlainWords ==
    /\ \A i \in DOMAIN words : words[i] # <<>> /\ wordCount(words[i]) = 1
    /\ \A i, j \in DOMAIN words : words[i] = words[j] => i = j

\* C18 (no duplicate work): when the dictionary words are pairwise distinct,
\* non-empty and contain no space, no candidate is placed on the Frontier more
\* than once, the result set holds no phrase twice, and the count printed is
\* the number of distinct phrases of the result set.
C18_NoDuplicateWork ==
    DistinctPlainWords =>
        /\ \A c \in BagToSet(placed) : placed[c] = 1
        /\ \A i, j \in DOMAIN phrases : phrases[i] = phrases[j] => i = j
        /\ pc = "done" =>
              LastOut = Msg("Possibilities",
                            <<Cardinality({phrases[i] : i \in DOMAIN phrases}),
                              word_count, letter_count>>)

\* a finished search over two such words that placed candidates of two words
\* and recorded more than one phrase
C18_Witness ==
    /\ pc = "done"
    /\ DistinctPlainWords
    /\ Len(words) = 2
    /\ \E c \in BagToSet(placed) : wordCount(c) >= 2
    /\ Len(phrases) >= 2

====
